---- MODULE Spec2Model ----
(***************************************************************************)
(* Anomaly detection service (ainesh01/anomaly_detection).                  *)
(*                                                                         *)
(* State: the three PostgreSQL tables (jobs, anomaly_rules, anomalies),     *)
(* their BIGSERIAL sequences, and the position and locals of every          *)
(* in-flight DetectAnomalies / DetectAnomaliesForAllJobs call.  One action  *)
(* per database statement of a handler: statements of different handlers    *)
(* interleave, the Go code between two statements is local.                 *)
(*                                                                         *)
(* float64 values are modelled as exact rationals [n, d]; a standard        *)
(* deviation is carried as its square (the variance), so that the z-score   *)
(* test |z| > 3 is decided exactly as z^2 > 9.                              *)
(***************************************************************************)
EXTENDS Integers, Sequences, FiniteSets, TLC

\* ---------------------------------------------------------------- bounds
MaxScans  == 1    \* POST /api/anomalies/detect-all requests in one behaviour
MaxRuleId == 2    \* last value handed out by the anomaly_rules id sequence

\* ------------------------------------------------------ program constants
StdDevThreshold == 3

Procs == {"p1"}

NULL == <<>>
Some(v) == <<v>>

\* --------------------------------------------------------------- float64
Abs(x) == IF x < 0 THEN -x ELSE x

RECURSIVE GCD(_, _)
GCD(a, b) == IF b = 0 THEN a ELSE GCD(b, a % b)

Rat(n, d) ==
    LET g == GCD(Abs(n), Abs(d))
        s == IF d < 0 THEN -1 ELSE 1
    IN  [n |-> s * (n \div g), d |-> s * (d \div g)]

F(x) == [n |-> x, d |-> 1]

RSub(a, b) == Rat(a.n * b.d - b.n * a.d, a.d * b.d)

RMul(a, b) == Rat(a.n * b.n, a.d * b.d)

RLess(a, b) == a.n * b.d < b.n * a.d

\* ---------------------------------------------------------------- models
\* models.JobData, restricted to the fields the services read
MkJob(id, empty, rating, minSalary, maxSalary) ==
    [JobID          |-> id,
     CompanyName    |-> IF "company_name" \in empty THEN "" ELSE "x",
     JobTitle       |-> IF "job_title" \in empty THEN "" ELSE "x",
     JobDescription |-> IF "job_description" \in empty THEN "" ELSE "x",
     City           |-> IF "city" \in empty THEN "" ELSE "x",
     CompanyAddress |-> IF "company_address" \in empty THEN "" ELSE "x",
     CompanyWebsite |-> IF "company_website" \in empty THEN "" ELSE "x",
     JobLink        |-> IF "job_link" \in empty THEN "" ELSE "x",
     CompanyRating  |-> rating,
     MinSalary      |-> minSalary,
     MaxSalary      |-> maxSalary]

RequiredFields ==
    <<"company_name", "job_title", "job_description", "city",
      "company_address", "company_website", "job_link">>

AllRequired == {RequiredFields[i] : i \in 1..Len(RequiredFields)}

\* the zero value of models.JobData
ZeroJob == MkJob("", AllRequired, 0, NULL, NULL)

AnomalyTypeMaxSalary  == "max_salary"
AnomalyTypeMinSalary  == "min_salary"
AnomalyTypeRating     == "company_rating"
AnomalyTypeNullValues == "null_values"
AnomalyTypeDeviation  == "standard_deviation"

GreaterThan        == ">"
GreaterThanOrEqual == ">="
LessThan           == "<"
LessThanOrEqual    == "<="
Equal              == "="

\* models.Anomaly; ID 0 is the zero value of a finding that was never stored
Anomaly(type, jobID, description, value, threshold, operator, violations) ==
    [ID          |-> 0,
     Type        |-> type,
     JobID       |-> jobID,
     Description |-> description,
     Value       |-> value,
     Threshold   |-> threshold,
     Operator    |-> operator,
     Violations  |-> violations]

\* models.AnomalyRule
AnomalyRule(name, description, type, operator, value, isActive) ==
    [ID          |-> 0,
     Name        |-> name,
     Description |-> description,
     Type        |-> type,
     Operator    |-> operator,
     Value       |-> value,
     IsActive    |-> isActive]

\* ---------------------------------------------------------------- inputs
TestEmpty == {"company_name", "company_address", "company_website", "job_link"}

\* records a client ingests (POST /api/job-data, file load)
UpsertInputs ==
    { MkJob("j1", {}, 1, NULL, Some(-1)),
      MkJob("j1", TestEmpty, 0, NULL, NULL),
      MkJob("j2", {}, 2, Some(0), Some(0)),
      MkJob("j3", {}, 3, Some(1), Some(1)),
      MkJob("j3", {"job_title"}, 2, NULL, Some(0)) }

\* the same, with a second version of record j2
IngestInputs == UpsertInputs \cup {MkJob("j2", {"city"}, 0, Some(1), NULL)}

IngestIds == {r.JobID : r \in IngestInputs}

\* records a client submits for detection
DetectInputs ==
    UpsertInputs \cup
    { MkJob("j1", {}, 5, Some(0), Some(4)),
      MkJob("j1", {"job_title", "city"}, 6, Some(-1), Some(3)),
      MkJob("j2", AllRequired, 0, NULL, Some(-4)),
      MkJob("j2", {"job_link"}, -2, Some(1), NULL),
      MkJob("j4", TestEmpty, 6, Some(0), Some(-1)) }

\* rules a client creates or puts (POST/PUT /api/anomaly-rules)
RuleInputs ==
    { AnomalyRule("r1", "d1", AnomalyTypeMaxSalary, LessThan, 0, TRUE),
      AnomalyRule("r1", "d1", AnomalyTypeMaxSalary, GreaterThanOrEqual, 0, TRUE),
      AnomalyRule("r1", "d2", AnomalyTypeMinSalary, Equal, 0, TRUE),
      AnomalyRule("r1", "d3", AnomalyTypeRating, GreaterThan, 2, FALSE),
      AnomalyRule("r2", "d2", AnomalyTypeMinSalary, LessThanOrEqual, 0, TRUE),
      AnomalyRule("r2", "d3", AnomalyTypeRating, GreaterThan, 2, TRUE),
      AnomalyRule("r2", "d3", AnomalyTypeRating, LessThan, 1, TRUE),
      AnomalyRule("r2", "d1", AnomalyTypeMaxSalary, "!=", 0, TRUE) }

\* ----------------------------------------------------------------- state
VARIABLES
    jobs,           \* table jobs: set of records, primary key JobID
    rules,          \* table anomaly_rules, in creation order
    nextRuleId,     \* next value of the anomaly_rules id sequence
    anomalies,      \* table anomalies: set of findings, primary key ID
    nextAnomalyId,  \* next value of the anomalies id sequence
    call,           \* per handler goroutine: the DetectAnomalies call
    scan,           \* per handler goroutine: the DetectAnomaliesForAllJobs loop
    resp,           \* error returned by the last record/rule service operation
    scans,          \* DetectAnomaliesForAllJobs invocations so far
    ingested        \* history: the records CreateJobData has stored

vars == <<jobs, rules, nextRuleId, anomalies, nextAnomalyId, call, scan, resp,
          scans, ingested>>

ZeroStats ==
    [AvgSalary |-> F(0), SalaryVar |-> F(0), AvgRating |-> F(0), RatingVar |-> F(0)]

IdleCall ==
    [pc                |-> "idle",
     job               |-> ZeroJob,
     stats             |-> ZeroStats,
     rules             |-> <<>>,
     i                 |-> 1,
     detectedAnomalies |-> <<>>,
     err               |-> "",
     emitted           |-> <<>>,     \* history: every saveAnomaly call made
     everActive        |-> {},       \* history: rule ids active at some time of the call
     steady            |-> {}]       \* history: rules stored unchanged all through the call

\* the error of a statement that failed in the database, whatever the wrapper
DatabaseError == "database error"

\* per job id the record of the last CreateJobData that succeeded, and every
\* record one has stored
NothingIngested == [last |-> [id \in IngestIds |-> NULL], ever |-> {}]

IdleScan ==
    [active |-> FALSE,
     rows   |-> <<>>,      \* the rows of the result set not yet fetched
     err    |-> "",
     done   |-> 0,
     all    |-> <<>>,      \* history: the result set of the query
     seen   |-> <<>>,      \* history: job ids DetectAnomalies was called on
     failed |-> 0]         \* history: per-record errors printed

\* ------------------------------------------------------- database schema
\* createDefaultAnomalyRules
DefaultRule ==
    [AnomalyRule("Negative Salary", "Alert if maximum salary is negative",
                 "salary", LessThan, 0, TRUE) EXCEPT !.ID = 1]

\* InitializeDatabaseService / createTables: drop, create, seed
Init ==
    /\ jobs = {}
    /\ rules = <<DefaultRule>>
    /\ nextRuleId = 2
    /\ anomalies = {}
    /\ nextAnomalyId = 1
    /\ call = [p \in Procs |-> IdleCall]
    /\ scan = [p \in Procs |-> IdleScan]
    /\ resp = [err |-> ""]
    /\ scans = 0
    /\ ingested = NothingIngested

JobIds == {r.JobID : r \in jobs}

ActiveIds(rs) == {rs[k].ID : k \in {k \in 1..Len(rs) : rs[k].IsActive}}

Stored(rs) == {rs[k] : k \in 1..Len(rs)}

RuleIds(rs) == {rs[k].ID : k \in 1..Len(rs)}


\* ------------------------------------------------- Statistics Calculator
RECURSIVE Sum(_, _)
Sum(f, S) ==
    IF S = {} THEN 0
    ELSE LET x == CHOOSE y \in S : TRUE IN f[x] + Sum(f, S \ {x})

\* SQL AVG: NULL over no rows
AVG(f, S) ==
    IF S = {} THEN NULL ELSE Some(Rat(Sum(f, S), Cardinality(S)))

\* SQL STDDEV (sample standard deviation), as its square: NULL under two rows
STDDEV(f, S) ==
    LET n  == Cardinality(S)
        s1 == Sum(f, S)
        s2 == Sum([r \in S |-> f[r] * f[r]], S)
    IN  IF n < 2 THEN NULL ELSE Some(Rat(n * s2 - s1 * s1, n * (n - 1)))

\* the rows of: FROM jobs WHERE max_salary IS NOT NULL AND company_rating > 0
StatisticsRows(table) ==
    {r \in table : r.MaxSalary # NULL /\ r.CompanyRating > 0}

\* Scan of a NULL column into a float64
ScanNullError == "error getting statistics: converting NULL to float64 is unsupported"

\* the query itself failed
StatisticsQueryError == "error getting statistics: database error"

RulesQueryError == "error getting anomaly rules via service: database error"

\* getStatistics: one aggregate row scanned into four float64; a NULL column
\* makes Scan fail
getStatistics(table) ==
    LET Q      == StatisticsRows(table)
        salary == [r \in Q |-> r.MaxSalary[1]]
        rating == [r \in Q |-> r.CompanyRating]
        row    == <<AVG(salary, Q), STDDEV(salary, Q), AVG(rating, Q), STDDEV(rating, Q)>>
    IN  IF \E k \in 1..4 : row[k] = NULL
        THEN [err |-> ScanNullError, stats |-> ZeroStats]
        ELSE [err |-> "",
              stats |-> [AvgSalary |-> row[1][1], SalaryVar |-> row[2][1],
                         AvgRating |-> row[3][1], RatingVar |-> row[4][1]]]

\* ------------------------------------------------------ Detection Engine
\* mutant: the last of the seven checks is missing
nullViolationsNoJobLink(job) ==
    LET v1 == IF job.CompanyName = "" THEN <<"company_name">> ELSE <<>>
        v2 == IF job.JobTitle = "" THEN Append(v1, "job_title") ELSE v1
        v3 == IF job.JobDescription = "" THEN Append(v2, "job_description") ELSE v2
        v4 == IF job.City = "" THEN Append(v3, "city") ELSE v3
        v5 == IF job.CompanyAddress = "" THEN Append(v4, "company_address") ELSE v4
        v6 == IF job.CompanyWebsite = "" THEN Append(v5, "company_website") ELSE v5
    IN  v6

\* DetectAnomalies, null check: one append per empty required field
nullViolations(job) ==
    LET v1 == IF job.CompanyName = "" THEN <<"company_name">> ELSE <<>>
        v2 == IF job.JobTitle = "" THEN Append(v1, "job_title") ELSE v1
        v3 == IF job.JobDescription = "" THEN Append(v2, "job_description") ELSE v2
        v4 == IF job.City = "" THEN Append(v3, "city") ELSE v3
        v5 == IF job.CompanyAddress = "" THEN Append(v4, "company_address") ELSE v4
        v6 == IF job.CompanyWebsite = "" THEN Append(v5, "company_website") ELSE v5
        v7 == IF job.JobLink = "" THEN Append(v6, "job_link") ELSE v6
    IN  v7

nullAnomaly(job) ==
    Anomaly(AnomalyTypeNullValues, job.JobID, "Required fields are null",
            F(0), F(0), Equal, nullViolations(job))

\* mutant: >= in place of >
ZScoreExceedsInclusive(value, avg, var) ==
    LET d == RSub(value, avg)
    IN  IF var.n = 0
        THEN d.n # 0
        ELSE ~RLess(RMul(d, d), RMul(F(StdDevThreshold * StdDevThreshold), var))

\* math.Abs((value - avg) / stddev) > StdDevThreshold.  Dividing by a zero
\* stddev gives +Inf or -Inf (greater than the threshold in absolute value)
\* when value differs from avg, and NaN (every comparison false) when not.
ZScoreExceeds(value, avg, var) ==
    LET d == RSub(value, avg)
    IN  IF var.n = 0
        THEN d.n # 0
        ELSE RLess(RMul(F(StdDevThreshold * StdDevThreshold), var), RMul(d, d))

\* the two deviation findings; the description also carries the z-score, to two
\* decimals, which nothing below reads
salaryDeviationAnomaly(job, stats) ==
    Anomaly(AnomalyTypeDeviation, job.JobID, "Salary deviates significantly from mean",
            F(job.MaxSalary[1]), stats.AvgSalary, Equal, <<"max_salary">>)

ratingDeviationAnomaly(job, stats) ==
    Anomaly(AnomalyTypeDeviation, job.JobID,
            "Company rating deviates significantly from mean",
            F(job.CompanyRating), stats.AvgRating, Equal, <<"company_rating">>)

compareValues(value, threshold, operator) ==
    CASE operator = GreaterThan        -> value > threshold
      [] operator = GreaterThanOrEqual -> value >= threshold
      [] operator = LessThan           -> value < threshold
      [] operator = LessThanOrEqual    -> value <= threshold
      [] operator = Equal              -> value = threshold
      [] OTHER                         -> FALSE

\* the switch on rule.Type: the record's value for the rule's metric, NULL
\* when the salary pointer is nil or the type is unknown
actualValue(rule, job) ==
    CASE rule.Type = AnomalyTypeMaxSalary -> job.MaxSalary
      [] rule.Type = AnomalyTypeMinSalary -> job.MinSalary
      [] rule.Type = AnomalyTypeRating    -> Some(job.CompanyRating)
      [] OTHER                            -> NULL

\* mutant: the is_active check is missing
RuleSkippedNever(rule) == FALSE

\* if !rule.IsActive { continue }
RuleSkipped(rule) == ~rule.IsActive

anomalyDetected(rule, job) ==
    /\ ~RuleSkipped(rule)
    /\ actualValue(rule, job) # NULL
    /\ compareValues(actualValue(rule, job)[1], rule.Value, rule.Operator)

ruleAnomaly(rule, job) ==
    Anomaly(rule.Type, job.JobID, rule.Description,
            F(actualValue(rule, job)[1]), F(rule.Value), rule.Operator, <<>>)

\* AnomalyRuleService.GetAnomalyRules: ORDER BY created_at DESC (created_at is
\* set once, at creation, so newest rule first)
GetAnomalyRules(rs) == [k \in 1..Len(rs) |-> rs[Len(rs) + 1 - k]]

\* saveAnomaly: the outcomes of INSERT ... RETURNING id.  It fails on the
\* foreign key when the job is not stored (the sequence value is consumed);
\* otherwise it stores the row under the next id, or the statement fails
\* (connection, timeout), as any statement sent to the database can.
saveAnomaly(anomaly) ==
    IF anomaly.JobID \notin JobIds
    THEN {[ok |-> FALSE, seq |-> TRUE]}
    ELSE {[ok |-> TRUE, seq |-> TRUE], [ok |-> FALSE, seq |-> FALSE]}

\* mutant: a failed insert ends the call with the insert's error
AfterSaveAbort(c, anomaly, ok, ruleId) ==
    [c EXCEPT !.pc = IF ok THEN @ ELSE "done",
              !.err = IF ok THEN @ ELSE "error saving anomaly",
              !.detectedAnomalies = IF ok THEN Append(@, anomaly) ELSE <<>>,
              !.emitted = Append(@, [anomaly |-> anomaly, ok |-> ok, rule |-> ruleId])]

\* mutant: the finding is appended whether or not the insert succeeded
AfterSaveAppendAlways(c, anomaly, ok, ruleId) ==
    [c EXCEPT !.detectedAnomalies = Append(@, anomaly),
              !.emitted = Append(@, [anomaly |-> anomaly, ok |-> ok, rule |-> ruleId])]

\* mutant: the call returns as soon as it has saved a finding
AfterSaveReturn(c, anomaly, ok, ruleId) ==
    [c EXCEPT !.pc = IF ok THEN "done" ELSE @,
              !.detectedAnomalies = IF ok THEN Append(@, anomaly) ELSE @,
              !.emitted = Append(@, [anomaly |-> anomaly, ok |-> ok, rule |-> ruleId])]

\* if err := s.saveAnomaly(&a); err != nil { log } else { append }
AfterSave(c, anomaly, ok, ruleId) ==
    [c EXCEPT !.detectedAnomalies = IF ok THEN Append(@, anomaly) ELSE @,
              !.emitted = Append(@, [anomaly |-> anomaly, ok |-> ok, rule |-> ruleId])]

\* a finding as it is before it is stored: without an id
Unstored(anomaly) == [anomaly EXCEPT !.ID = 0]

\* mutant: INSERT ... ON CONFLICT DO NOTHING on the content of the finding
InsertRowOnce(table, row) ==
    IF \E r \in table : Unstored(r) = Unstored(row) THEN table ELSE table \cup {row}

\* mutant: the new finding replaces the findings stored for the record
InsertRowReplace(table, row) ==
    {r \in table : r.JobID # row.JobID} \cup {row}

\* INSERT INTO anomalies: the table has no key but id, the row is added
InsertRow(table, row) == table \cup {row}

Save(p, c, anomaly, ruleId) ==
    \E o \in saveAnomaly(anomaly) :
        LET stored == [anomaly EXCEPT !.ID = nextAnomalyId] IN
        /\ anomalies' = IF o.ok THEN InsertRow(anomalies, stored) ELSE anomalies
        /\ nextAnomalyId' = IF o.seq THEN nextAnomalyId + 1 ELSE nextAnomalyId
        /\ call' = [call EXCEPT ![p] =
                        AfterSave(c, IF o.ok THEN stored ELSE anomaly, o.ok, ruleId)]

NoSave(p, c) ==
    /\ call' = [call EXCEPT ![p] = c]
    /\ UNCHANGED <<anomalies, nextAnomalyId>>

\* return nil, fmt.Errorf(...)
ReturnError(c, err) ==
    [c EXCEPT !.pc = "done", !.err = err, !.detectedAnomalies = <<>>]

\* DetectAnomalies, entry and null-value phase
NullPhase(p, job) ==
    LET c == [IdleCall EXCEPT !.pc = "stats", !.job = job,
                              !.everActive = ActiveIds(rules),
                              !.steady = Stored(rules)]
    IN  IF Len(nullViolations(job)) > 0
        THEN Save(p, c, nullAnomaly(job), 0)
        ELSE NoSave(p, c)

Free(p) == call[p].pc \in {"idle", "done"}

\* mutant: a statement of the detection switches the stored rules off
DeactivatesRules ==
    /\ jobs' = jobs
    /\ nextRuleId' = nextRuleId
    /\ rules' = [k \in 1..Len(rules) |-> [rules[k] EXCEPT !.IsActive = FALSE]]

\* the statements DetectAnomalies and DetectAnomaliesForAllJobs send: SELECT
\* on jobs (statistics, result set), SELECT on anomaly_rules, INSERT INTO
\* anomalies; none writes to jobs or to anomaly_rules
LeavesRecordsAndRules == UNCHANGED <<jobs, rules, nextRuleId>>

\* AnomalyHandler.DetectAnomalies -> AnomalyService.DetectAnomalies
DetectAnomalies(p, job) ==
    /\ Free(p)
    /\ ~scan[p].active
    /\ NullPhase(p, job)
    /\ LeavesRecordsAndRules
    /\ UNCHANGED <<scan, resp, scans, ingested>>

\* stats, err := s.getStatistics()
DetectStatistics(p) ==
    LET c == call[p]
        r == getStatistics(jobs)
    IN  /\ c.pc = "stats"
        /\ \/ /\ call' = [call EXCEPT ![p] = ReturnError(c, StatisticsQueryError)]
           \/ /\ call' = [call EXCEPT ![p] =
                    IF r.err # ""
                    THEN ReturnError(c, r.err)
                    ELSE [c EXCEPT !.pc = "devSalary", !.stats = r.stats]]
        /\ LeavesRecordsAndRules
        /\ UNCHANGED <<anomalies, nextAnomalyId, scan,
                       resp, scans, ingested>>

\* if job.MaxSalary != nil { ... }
DetectSalaryDeviation(p) ==
    LET c  == call[p]
        c1 == [c EXCEPT !.pc = "devRating"]
    IN  /\ c.pc = "devSalary"
        /\ IF /\ c.job.MaxSalary # NULL
              /\ ZScoreExceeds(F(c.job.MaxSalary[1]), c.stats.AvgSalary, c.stats.SalaryVar)
           THEN Save(p, c1, salaryDeviationAnomaly(c.job, c.stats), 0)
           ELSE NoSave(p, c1)
        /\ LeavesRecordsAndRules
        /\ UNCHANGED <<scan, resp, scans, ingested>>

\* if job.CompanyRating != 0 { ... }
DetectRatingDeviation(p) ==
    LET c  == call[p]
        c1 == [c EXCEPT !.pc = "getRules"]
    IN  /\ c.pc = "devRating"
        /\ IF /\ c.job.CompanyRating # 0
              /\ ZScoreExceeds(F(c.job.CompanyRating), c.stats.AvgRating, c.stats.RatingVar)
           THEN Save(p, c1, ratingDeviationAnomaly(c.job, c.stats), 0)
           ELSE NoSave(p, c1)
        /\ LeavesRecordsAndRules
        /\ UNCHANGED <<scan, resp, scans, ingested>>

LoopPc(i, rs) == IF i > Len(rs) THEN "done" ELSE "applyRules"

\* rules, err := s.ruleService.GetAnomalyRules()
DetectGetRules(p) ==
    LET c  == call[p]
        rs == GetAnomalyRules(rules)
    IN  /\ c.pc = "getRules"
        /\ \/ /\ call' = [call EXCEPT ![p] = ReturnError(c, RulesQueryError)]
           \/ /\ call' = [call EXCEPT ![p] =
                    [c EXCEPT !.pc = LoopPc(1, rs), !.rules = rs, !.i = 1]]
        /\ LeavesRecordsAndRules
        /\ UNCHANGED <<anomalies, nextAnomalyId, scan,
                       resp, scans, ingested>>

\* one iteration of: for _, rule := range rules { ... }
DetectApplyRule(p) ==
    LET c    == call[p]
        rule == c.rules[c.i]
        c1   == [c EXCEPT !.i = c.i + 1, !.pc = LoopPc(c.i + 1, c.rules)]
    IN  /\ c.pc = "applyRules"
        /\ IF anomalyDetected(rule, c.job)
           THEN Save(p, c1, ruleAnomaly(rule, c.job), rule.ID)
           ELSE NoSave(p, c1)
        /\ LeavesRecordsAndRules
        /\ UNCHANGED <<scan, resp, scans, ingested>>

\* ---------------------------------------------------------- Batch Runner
\* the six columns DetectAnomaliesForAllJobs scans into a zero JobData
ScanRow(r) ==
    [ZeroJob EXCEPT !.JobID = r.JobID, !.CompanyName = r.CompanyName,
                    !.CompanyRating = r.CompanyRating, !.JobTitle = r.JobTitle,
                    !.MinSalary = r.MinSalary, !.MaxSalary = r.MaxSalary]

\* the result set of SELECT ... FROM jobs: every row once, in no promised order
Orders(table) ==
    {s \in [1..Cardinality(table) -> table] :
        \A a, b \in 1..Cardinality(table) : a # b => s[a] # s[b]}

\* mutant: the loop is left on the first per-record error
LogErrorBreak(sc, c) ==
    IF c.pc = "done" /\ c.err # ""
    THEN [sc EXCEPT !.failed = @ + 1, !.rows = <<>>]
    ELSE sc

\* mutant: the per-record error is returned
LogErrorReturn(sc, c) ==
    IF c.pc = "done" /\ c.err # ""
    THEN [sc EXCEPT !.failed = @ + 1, !.rows = <<>>,
                    !.err = "error detecting anomalies"]
    ELSE sc

\* if err != nil { fmt.Printf(...) }: the error of the per-record call that
\* has just returned is printed, and the loop goes on
LogError(sc, c) ==
    IF c.pc = "done" /\ c.err # ""
    THEN [sc EXCEPT !.failed = @ + 1]
    ELSE sc

\* rows, err := s.db.Query(query)
DetectAnomaliesForAllJobs(p) ==
    /\ Free(p)
    /\ ~scan[p].active
    /\ scans < MaxScans
    /\ scans' = scans + 1
    /\ \/ /\ scan' = [scan EXCEPT ![p] = [IdleScan EXCEPT !.err = "error querying jobs"]]
       \/ /\ \E s \in Orders(jobs) :
                scan' = [scan EXCEPT ![p] = [IdleScan EXCEPT !.active = TRUE, !.rows = s,
                                                             !.all = s]]
    /\ LeavesRecordsAndRules
    /\ UNCHANGED <<anomalies, nextAnomalyId, call, resp, ingested>>

\* for rows.Next() { rows.Scan(...); s.DetectAnomalies(&job) }; the result of
\* the call before is dropped (_, err = s.DetectAnomalies(&job))
DetectAllNext(p) ==
    LET sc == LogError(scan[p], call[p]) IN
    /\ Free(p)
    /\ sc.active
    /\ sc.rows # <<>>
    /\ \/ /\ scan' = [scan EXCEPT ![p] = [sc EXCEPT !.active = FALSE, !.rows = <<>>,
                                                    !.err = "error scanning job"]]
          /\ call' = [call EXCEPT ![p] = IdleCall]
          /\ UNCHANGED <<anomalies, nextAnomalyId>>
       \/ /\ scan' = [scan EXCEPT ![p] =
                        [sc EXCEPT !.rows = Tail(@), !.done = @ + 1,
                                   !.seen = Append(@, Head(sc.rows).JobID)]]
          /\ NullPhase(p, ScanRow(Head(sc.rows)))
    /\ LeavesRecordsAndRules
    /\ UNCHANGED <<resp, scans, ingested>>

\* rows.Err() and return
DetectAllReturn(p) ==
    LET sc == LogError(scan[p], call[p]) IN
    /\ Free(p)
    /\ sc.active
    /\ sc.rows = <<>>
    /\ \/ /\ scan' = [scan EXCEPT ![p] = [sc EXCEPT !.active = FALSE,
                                                    !.err = "error iterating jobs"]]
       \/ /\ scan' = [scan EXCEPT ![p] = [sc EXCEPT !.active = FALSE]]
    /\ call' = [call EXCEPT ![p] = IdleCall]
    /\ LeavesRecordsAndRules
    /\ UNCHANGED <<anomalies, nextAnomalyId, resp, scans, ingested>>

\* ---------------------------------------------------------- Anomaly Store
\* rows.Scan of the eight columns the two SELECTs list (id, job_id, type,
\* description, value, threshold, operator, created_at) into a zero
\* models.Anomaly: the violations column is not selected, the field stays nil
ScanAnomaly(row) ==
    [Anomaly(row.Type, row.JobID, row.Description, row.Value, row.Threshold,
             row.Operator, <<>>) EXCEPT !.ID = row.ID]

\* the slice a query returns, as the set of its elements (its order, by
\* created_at, is not modelled)
ScanAnomalies(rows) == {ScanAnomaly(row) : row \in rows}

\* AnomalyService.GetAnomaliesByJobID: SELECT ... WHERE job_id = $1
GetAnomaliesByJobID(jobID) ==
    /\ \/ resp' = [err |-> "error querying anomalies by job ID", anomalies |-> {}]
       \/ resp' = [err |-> "",
                   anomalies |-> ScanAnomalies({a \in anomalies : a.JobID = jobID})]
    /\ UNCHANGED <<jobs, rules, nextRuleId, anomalies, nextAnomalyId, call, scan,
                   scans, ingested>>

\* AnomalyService.GetAllAnomalies: SELECT ... FROM anomalies
GetAllAnomalies ==
    /\ \/ resp' = [err |-> "error querying all anomalies", anomalies |-> {}]
       \/ resp' = [err |-> "", anomalies |-> ScanAnomalies(anomalies)]
    /\ UNCHANGED <<jobs, rules, nextRuleId, anomalies, nextAnomalyId, call, scan,
                   scans, ingested>>

\* ---------------------------------------------------------- Record Store
\* JobDataService.CreateJobData: INSERT ... ON CONFLICT (job_id) DO UPDATE
\* mutant: ON CONFLICT (job_id) DO NOTHING
UpsertKeepStored(table, job) ==
    IF \E r \in table : r.JobID = job.JobID THEN table ELSE table \cup {job}

\* the row is inserted, or on a conflict on job_id every column of the stored
\* row (but created_at) is set to the new value
Upsert(table, job) == {r \in table : r.JobID # job.JobID} \cup {job}

CreateJobData(job) ==
    /\ \/ /\ jobs' = jobs
          /\ resp' = [err |-> DatabaseError]
          /\ ingested' = ingested
       \/ /\ jobs' = Upsert(jobs, job)
          /\ resp' = [err |-> ""]
          /\ ingested' = [last |-> [ingested.last EXCEPT ![job.JobID] = Some(job)],
                          ever |-> ingested.ever \cup {job}]
    /\ UNCHANGED <<rules, nextRuleId, anomalies, nextAnomalyId, call, scan, scans>>

\* JobDataService.GetJobData: SELECT ... FROM jobs WHERE job_id = $1, every
\* column scanned; sql.ErrNoRows is reported as not found
GetJobData(jobID) ==
    /\ \/ resp' = [err |-> DatabaseError, job |-> NULL]
       \/ resp' = IF jobID \in JobIds
                  THEN [err |-> "", job |-> Some(CHOOSE r \in jobs : r.JobID = jobID)]
                  ELSE [err |-> "not found", job |-> NULL]
    /\ UNCHANGED <<jobs, rules, nextRuleId, anomalies, nextAnomalyId, call, scan,
                   scans, ingested>>

\* ------------------------------------------------------------ Rule Store
\* history: a running call has seen every rule that is active now, and the
\* rules it has seen unchanged so far are those that still are
Touch(rs) ==
    [p \in Procs |->
        IF Free(p) THEN call[p]
        ELSE [call[p] EXCEPT !.everActive = @ \cup ActiveIds(rs),
                             !.steady = @ \cap Stored(rs)]]

Without(rs, id) == SelectSeq(rs, LAMBDA r : r.ID # id)

\* mutant: the name column has no UNIQUE constraint
NameTakenNever(rs, name) == FALSE

NameTaken(rs, name) == \E k \in 1..Len(rs) : rs[k].Name = name

\* AnomalyRuleService.CreateAnomalyRule: INSERT ... RETURNING id; name is UNIQUE
CreateAnomalyRule(rule) ==
    /\ nextRuleId <= MaxRuleId
    /\ \/ /\ UNCHANGED <<rules, nextRuleId>>
          /\ resp' = [err |-> DatabaseError]
       \/ /\ nextRuleId' = nextRuleId + 1
          /\ IF NameTaken(rules, rule.Name)
             THEN /\ rules' = rules
                  /\ resp' = [err |-> "duplicate name"]
             ELSE /\ rules' = Append(rules, [rule EXCEPT !.ID = nextRuleId])
                  /\ resp' = [err |-> ""]
    /\ call' = Touch(rules')
    /\ UNCHANGED <<jobs, anomalies, nextAnomalyId, scan, scans, ingested>>

\* AnomalyRuleService.UpdateAnomalyRule: UPDATE ... WHERE id = $8
UpdateAnomalyRule(id, rule) ==
    /\ \/ /\ rules' = rules
          /\ resp' = [err |-> DatabaseError]
       \/ /\ IF id \notin RuleIds(rules)
             THEN /\ rules' = rules
                  /\ resp' = [err |-> "not found"]
             ELSE IF NameTaken(Without(rules, id), rule.Name)
             THEN /\ rules' = rules
                  /\ resp' = [err |-> "duplicate name"]
             ELSE /\ rules' = [k \in 1..Len(rules) |->
                                  IF rules[k].ID = id THEN [rule EXCEPT !.ID = id]
                                  ELSE rules[k]]
                  /\ resp' = [err |-> ""]
    /\ call' = Touch(rules')
    /\ UNCHANGED <<jobs, nextRuleId, anomalies, nextAnomalyId, scan, scans, ingested>>

\* AnomalyRuleService.DeleteAnomalyRule: DELETE ... WHERE id = $1
DeleteAnomalyRule(id) ==
    /\ \/ /\ rules' = rules
          /\ resp' = [err |-> DatabaseError]
       \/ /\ rules' = Without(rules, id)
          /\ resp' = [err |-> IF id \in RuleIds(rules) THEN "" ELSE "not found"]
    /\ call' = Touch(rules')
    /\ UNCHANGED <<jobs, nextRuleId, anomalies, nextAnomalyId, scan, scans, ingested>>

\* AnomalyRuleService.ToggleAnomalyRule: UPDATE ... SET is_active = $1 WHERE id = $2
ToggleAnomalyRule(id, isActive) ==
    /\ \/ /\ rules' = rules
          /\ resp' = [err |-> DatabaseError]
       \/ /\ rules' = [k \in 1..Len(rules) |->
                          IF rules[k].ID = id THEN [rules[k] EXCEPT !.IsActive = isActive]
                          ELSE rules[k]]
          /\ resp' = [err |-> IF id \in RuleIds(rules) THEN "" ELSE "not found"]
    /\ call' = Touch(rules')
    /\ UNCHANGED <<jobs, nextRuleId, anomalies, nextAnomalyId, scan, scans, ingested>>

\* the rows of: FROM anomaly_rules WHERE id = $1
RuleRows(rs, id) == SelectSeq(rs, LAMBDA r : r.ID = id)

\* mutant: sql.ErrNoRows is not looked at, the zero rule is returned
ScanRuleIgnoreNoRows(rs, id) ==
    IF RuleRows(rs, id) = <<>>
    THEN [err |-> "", rule |-> Some(AnomalyRule("", "", "", "", 0, FALSE))]
    ELSE [err |-> "", rule |-> Some(RuleRows(rs, id)[1])]

\* row.Scan: sql.ErrNoRows when the query has no row, reported as not found
ScanRule(rs, id) ==
    IF RuleRows(rs, id) = <<>>
    THEN [err |-> "not found", rule |-> NULL]
    ELSE [err |-> "", rule |-> Some(RuleRows(rs, id)[1])]

\* AnomalyRuleService.GetAnomalyRule
GetAnomalyRule(id) ==
    /\ \/ resp' = [err |-> DatabaseError, rule |-> NULL]
       \/ resp' = ScanRule(rules, id)
    /\ UNCHANGED <<jobs, rules, nextRuleId, anomalies, nextAnomalyId, call, scan,
                   scans, ingested>>

\* ------------------------------------------------------------ the system
\* Spec: the running service.  Every handler the router serves that writes to
\* a table, interleaved statement by statement, over a small population of
\* requests.  The router has no route to AnomalyHandler.DetectAnomalies: a
\* record is evaluated by POST /api/anomalies/detect-all only.
SysJobs ==
    { MkJob("j1", {}, 1, NULL, Some(-1)),
      MkJob("j2", {}, 2, Some(0), Some(0)) }

SysRules ==
    { AnomalyRule("r1", "d1", AnomalyTypeMaxSalary, LessThan, 0, TRUE) }

Next ==
    \/ \E job \in SysJobs : CreateJobData(job)
    \/ \E rule \in SysRules : CreateAnomalyRule(rule)
    \/ \E id \in 1..MaxRuleId, rule \in SysRules : UpdateAnomalyRule(id, rule)
    \/ \E id \in 1..MaxRuleId : DeleteAnomalyRule(id)
    \/ \E id \in 1..MaxRuleId, isActive \in BOOLEAN : ToggleAnomalyRule(id, isActive)
    \/ \E p \in Procs : DetectStatistics(p)
    \/ \E p \in Procs : DetectSalaryDeviation(p)
    \/ \E p \in Procs : DetectRatingDeviation(p)
    \/ \E p \in Procs : DetectGetRules(p)
    \/ \E p \in Procs : DetectApplyRule(p)
    \/ \E p \in Procs : DetectAnomaliesForAllJobs(p)
    \/ \E p \in Procs : DetectAllNext(p)
    \/ \E p \in Procs : DetectAllReturn(p)

Spec == Init /\ [][Next]_vars

\* SpecLive: the running service with its scheduling.  A handler goroutine that
\* has begun goes on to its next statement; nothing obliges a client to send a
\* request.
HandlerStep(p) ==
    \/ DetectStatistics(p)
    \/ DetectSalaryDeviation(p)
    \/ DetectRatingDeviation(p)
    \/ DetectGetRules(p)
    \/ DetectApplyRule(p)
    \/ DetectAllNext(p)
    \/ DetectAllReturn(p)

SpecLive == Spec /\ \A p \in Procs : WF_vars(HandlerStep(p))

\* SpecDetect: one DetectAnomalies call, on any submitted record, against any
\* content of the jobs and anomaly_rules tables that the requests above can
\* have produced before the call.
JobTables ==
    {T \in SUBSET UpsertInputs : \A a, b \in T : a.JobID = b.JobID => a = b}

WithId(rule, id) == [rule EXCEPT !.ID = id]

RuleTables ==
    {<<DefaultRule>>}
    \cup {<<DefaultRule, WithId(a, 2)>> : a \in RuleInputs}
    \cup {<<DefaultRule, WithId(ab[1], 2), WithId(ab[2], 3)>> :
            ab \in {x \in RuleInputs \X RuleInputs : x[1].Name # x[2].Name}}

InitDetect ==
    /\ jobs \in JobTables
    /\ rules \in RuleTables
    /\ nextRuleId = Len(rules) + 1
    /\ anomalies = {}
    /\ nextAnomalyId = 1
    /\ call = [p \in Procs |-> IdleCall]
    /\ scan = [p \in Procs |-> IdleScan]
    /\ resp = [err |-> ""]
    /\ scans = 0
    /\ ingested = NothingIngested

FirstCall(p, job) == call[p].pc = "idle" /\ DetectAnomalies(p, job)

NextDetect ==
    \/ \E p \in Procs, job \in DetectInputs : FirstCall(p, job)
    \/ \E p \in Procs : DetectStatistics(p)
    \/ \E p \in Procs : DetectSalaryDeviation(p)
    \/ \E p \in Procs : DetectRatingDeviation(p)
    \/ \E p \in Procs : DetectGetRules(p)
    \/ \E p \in Procs : DetectApplyRule(p)

SpecDetect == InitDetect /\ [][NextDetect]_vars

\* SpecRepeat: two DetectAnomalies calls on one record, by two handler
\* goroutines, one after the other or interleaved statement by statement,
\* while the jobs and anomaly_rules tables stay as they are.
Callers == {"p1", "p2"}

RepeatJobs ==
    { MkJob("j1", {}, 1, NULL, Some(-1)),
      MkJob("j2", {}, 2, Some(0), Some(0)),
      MkJob("j3", {}, 3, Some(1), Some(1)) }

RepeatRuleTables ==
    { <<DefaultRule>>,
      <<DefaultRule,
        WithId(AnomalyRule("r1", "d1", AnomalyTypeMaxSalary, GreaterThanOrEqual, 0, TRUE), 2)>>,
      <<DefaultRule,
        WithId(AnomalyRule("r1", "d1", AnomalyTypeMaxSalary, GreaterThanOrEqual, 0, TRUE), 2),
        WithId(AnomalyRule("r2", "d3", AnomalyTypeRating, GreaterThan, 2, TRUE), 3)>> }

InitRepeat ==
    /\ jobs = RepeatJobs
    /\ rules \in RepeatRuleTables
    /\ nextRuleId = Len(rules) + 1
    /\ anomalies = {}
    /\ nextAnomalyId = 1
    /\ call = [p \in Callers |-> IdleCall]
    /\ scan = [p \in Callers |-> IdleScan]
    /\ resp = [err |-> ""]
    /\ scans = 0
    /\ ingested = NothingIngested

\* the one call of a goroutine, on the record the other goroutine's call is on
RepeatCall(p, job) ==
    /\ call[p].pc = "idle"
    /\ \A q \in Callers : call[q].pc # "idle" => call[q].job = job
    /\ DetectAnomalies(p, job)

NextRepeat ==
    \/ \E p \in Callers, job \in DetectInputs : RepeatCall(p, job)
    \/ \E p \in Callers : DetectStatistics(p)
    \/ \E p \in Callers : DetectSalaryDeviation(p)
    \/ \E p \in Callers : DetectRatingDeviation(p)
    \/ \E p \in Callers : DetectGetRules(p)
    \/ \E p \in Callers : DetectApplyRule(p)

SpecRepeat == InitRepeat /\ [][NextRepeat]_vars

\* SpecRead: one DetectAnomalies call on any submitted record and, at any
\* time, the two read requests of the anomaly store.
InitRead ==
    /\ jobs = RepeatJobs
    /\ rules \in RepeatRuleTables
    /\ nextRuleId = Len(rules) + 1
    /\ anomalies = {}
    /\ nextAnomalyId = 1
    /\ call = [p \in Procs |-> IdleCall]
    /\ scan = [p \in Procs |-> IdleScan]
    /\ resp = [err |-> "", anomalies |-> {}]
    /\ scans = 0
    /\ ingested = NothingIngested

NextRead ==
    \/ NextDetect
    \/ \E jobID \in {job.JobID : job \in DetectInputs} : GetAnomaliesByJobID(jobID)
    \/ GetAllAnomalies

SpecRead == InitRead /\ [][NextRead]_vars

\* SpecRules: the rule store under every rule request of the router, with
\* request bodies that bind (any string is a type, an operator, a name).
RuleRequests ==
    RuleInputs \cup
    { AnomalyRule("r3", "d4", "city", Equal, 0, TRUE),
      AnomalyRule("Negative Salary", "d1", AnomalyTypeMaxSalary, LessThan, 0, TRUE) }

NextRules ==
    \/ \E rule \in RuleRequests : CreateAnomalyRule(rule)
    \/ \E id \in 1..MaxRuleId, rule \in RuleRequests : UpdateAnomalyRule(id, rule)
    \/ \E id \in 1..MaxRuleId : DeleteAnomalyRule(id)
    \/ \E id \in 1..MaxRuleId, isActive \in BOOLEAN : ToggleAnomalyRule(id, isActive)

SpecRules == Init /\ [][NextRules]_vars

\* SpecRecords: the jobs table under ingestion, by the file load of main and
\* by POST /api/job-data, both of which call CreateJobData per record.
NextRecords == \E job \in IngestInputs : CreateJobData(job)

SpecRecords == Init /\ [][NextRecords]_vars

\* SpecStats: one DetectAnomalies call against a jobs table in which some
\* records carry one of the two metrics of the statistics query and not the
\* other (a max salary with rating 0, a rating with no max salary).
StatsInputs ==
    { MkJob("j1", {}, 1, NULL, Some(-1)),
      MkJob("j2", {}, 2, Some(0), Some(0)),
      MkJob("j3", {}, 0, NULL, Some(4)),
      MkJob("j3", {}, 3, Some(1), NULL) }

StatsTables ==
    {T \in SUBSET StatsInputs : \A a, b \in T : a.JobID = b.JobID => a = b}

InitStats ==
    /\ jobs \in StatsTables
    /\ rules = <<DefaultRule>>
    /\ nextRuleId = 2
    /\ anomalies = {}
    /\ nextAnomalyId = 1
    /\ call = [p \in Procs |-> IdleCall]
    /\ scan = [p \in Procs |-> IdleScan]
    /\ resp = [err |-> ""]
    /\ scans = 0
    /\ ingested = NothingIngested

SpecStats == InitStats /\ [][NextDetect]_vars

\* SpecLookup: the rule requests of the router and the lookups by id of a
\* rule and of a record, while records are ingested.
LookupJobIds == {"j1", "j2", "j3"}

LookupRules ==
    SysRules \cup {AnomalyRule("r2", "d3", AnomalyTypeRating, GreaterThan, 2, FALSE)}

NextLookup ==
    \/ \E rule \in LookupRules : CreateAnomalyRule(rule)
    \/ \E id \in 1..MaxRuleId, rule \in LookupRules : UpdateAnomalyRule(id, rule)
    \/ \E id \in 1..MaxRuleId : DeleteAnomalyRule(id)
    \/ \E id \in 1..MaxRuleId, isActive \in BOOLEAN : ToggleAnomalyRule(id, isActive)
    \/ \E job \in SysJobs : CreateJobData(job)
    \/ \E id \in 1..MaxRuleId : GetAnomalyRule(id)
    \/ \E jobID \in LookupJobIds : GetJobData(jobID)

SpecLookup == Init /\ [][NextLookup]_vars

\* SpecRestart: the running service, stopped and started again at any time.
\* main calls InitializeDatabaseService before it serves; when that fails the
\* process exits (log.Fatalf) and nothing is served until a later start succeeds.
Database ==
    [jobs |-> jobs, rules |-> rules, nextRuleId |-> nextRuleId,
     anomalies |-> anomalies, nextAnomalyId |-> nextAnomalyId]

\* the statements of createTables, in order: three DROP TABLE IF EXISTS
\* (anomalies, jobs, anomaly_rules), three CREATE TABLE, the seed
CreateTablesStatements == 7

\* mutant: the tables are created if they do not exist and never dropped; the
\* seed is ON CONFLICT (name) DO NOTHING
createTablesIfNotExists(db, n) ==
    IF n < CreateTablesStatements \/ NameTaken(db.rules, DefaultRule.Name)
    THEN db
    ELSE [db EXCEPT !.rules = Append(@, [DefaultRule EXCEPT !.ID = db.nextRuleId]),
                    !.nextRuleId = @ + 1]

\* createTables: the database after its first n statements.  A dropped table
\* holds no row, and a table created anew starts its id sequence at 1.
createTables(db, n) ==
    [jobs          |-> IF n >= 2 THEN {} ELSE db.jobs,
     anomalies     |-> IF n >= 1 THEN {} ELSE db.anomalies,
     nextAnomalyId |-> IF n >= 1 THEN 1 ELSE db.nextAnomalyId,
     rules         |-> IF n >= CreateTablesStatements THEN <<DefaultRule>>
                       ELSE IF n >= 3 THEN <<>> ELSE db.rules,
     nextRuleId    |-> IF n >= CreateTablesStatements THEN 2
                       ELSE IF n >= 3 THEN 1 ELSE db.nextRuleId]

\* log.Fatalf("Error initializing database service ...") / ("Error creating tables ...")
FatalError == "fatal"

\* InitializeDatabaseService, in a process that starts: the connection fails
\* (n = 0), or statement n + 1 of createTables fails, or all succeed.  The
\* response of a successful start records, as history, what the tables held.
InitializeDatabaseService ==
    \E n \in 0..CreateTablesStatements :
        LET db == createTables(Database, n) IN
        /\ jobs' = db.jobs
        /\ rules' = db.rules
        /\ nextRuleId' = db.nextRuleId
        /\ anomalies' = db.anomalies
        /\ nextAnomalyId' = db.nextAnomalyId
        /\ call' = [p \in Procs |-> IdleCall]
        /\ scan' = [p \in Procs |-> IdleScan]
        /\ scans' = 0
        /\ ingested' = NothingIngested
        /\ resp' = IF n < CreateTablesStatements
                   THEN [err |-> FatalError]
                   ELSE [err |-> "",
                         dropped |-> [jobs      |-> jobs # {},
                                      anomalies |-> anomalies # {},
                                      rules     |-> Len(rules)]]

Serving == resp.err # FatalError

NextRestart ==
    \/ Serving /\ Next
    \/ InitializeDatabaseService

SpecRestart == Init /\ [][NextRestart]_vars

TypeOK ==
    /\ \A r \in jobs : r.JobID \in {"j1", "j2", "j3"}
    /\ \A p \in Procs : call[p].pc \in {"idle", "stats", "devSalary", "devRating",
                                         "getRules", "applyRules", "done"}

\* ------------------------------------------------------------ properties
\* the field of a record, by the name the null check reports it under
FieldOf(job, f) ==
    CASE f = "company_name"    -> job.CompanyName
      [] f = "job_title"       -> job.JobTitle
      [] f = "job_description" -> job.JobDescription
      [] f = "city"            -> job.City
      [] f = "company_address" -> job.CompanyAddress
      [] f = "company_website" -> job.CompanyWebsite
      [] f = "job_link"        -> job.JobLink

EmptyFields(job) == SelectSeq(RequiredFields, LAMBDA f : FieldOf(job, f) = "")

Metrics == {AnomalyTypeMaxSalary, AnomalyTypeMinSalary, AnomalyTypeRating}

Operators == {GreaterThan, GreaterThanOrEqual, LessThan, LessThanOrEqual, Equal}

\* the record carries the metric: a salary that is not null, a rating that is not 0
Carries(job, metric) ==
    CASE metric = AnomalyTypeMaxSalary -> job.MaxSalary # NULL
      [] metric = AnomalyTypeMinSalary -> job.MinSalary # NULL
      [] metric = AnomalyTypeRating    -> job.CompanyRating # 0

MetricValue(job, metric) ==
    CASE metric = AnomalyTypeMaxSalary -> job.MaxSalary[1]
      [] metric = AnomalyTypeMinSalary -> job.MinSalary[1]
      [] metric = AnomalyTypeRating    -> job.CompanyRating

\* v op t, read as arithmetic
Holds(v, op, t) ==
    \/ op = ">"  /\ v > t
    \/ op = ">=" /\ v >= t
    \/ op = "<"  /\ v < t
    \/ op = "<=" /\ v <= t
    \/ op = "="  /\ v = t

\* the rule is on a metric the record carries and its comparison holds
Applies(rule, job) ==
    /\ rule.Type \in Metrics
    /\ rule.Operator \in Operators
    /\ Carries(job, rule.Type)
    /\ Holds(MetricValue(job, rule.Type), rule.Operator, rule.Value)

\* |v - mu| > 3 * sigma, in integers: mu = mu.n / mu.d, sigma^2 = var.n / var.d
BeyondThreeSigma(v, mu, var) ==
    (v * mu.d - mu.n) * (v * mu.d - mu.n) * var.d > 9 * var.n * mu.d * mu.d

\* positions in the call's history of the findings it detected, by kind
NullEmissions(c) ==
    {k \in 1..Len(c.emitted) : c.emitted[k].anomaly.Type = AnomalyTypeNullValues}

DeviationEmissions(c, field) ==
    {k \in 1..Len(c.emitted) :
        /\ c.emitted[k].anomaly.Type = AnomalyTypeDeviation
        /\ c.emitted[k].anomaly.Violations = <<field>>}

RuleEmissions(c, id) == {k \in 1..Len(c.emitted) : c.emitted[k].rule = id}

\* the findings of the call whose insert succeeded, in order
OkFindings(c) ==
    LET s == SelectSeq(c.emitted, LAMBDA e : e.ok)
    IN  [k \in 1..Len(s) |-> s[k].anomaly]

Returned(c) == {c.detectedAnomalies[k] : k \in 1..Len(c.detectedAnomalies)}

\* the call has its statistics / is past a deviation check
PastStatistics(c) ==
    \/ c.pc \in {"devSalary", "devRating", "getRules", "applyRules"}
    \/ c.pc = "done" /\ c.err \in {"", RulesQueryError}

PastSalaryDeviation(c) == PastStatistics(c) /\ c.pc # "devSalary"

PastRatingDeviation(c) == PastSalaryDeviation(c) /\ c.pc # "devRating"

NullFindings == {a \in anomalies : a.Type = AnomalyTypeNullValues}

\* C1 (SpecDetect): in a call whose insert of the null-values finding did not
\* fail, the anomalies table holds a null-values finding if and only if a
\* required field of the record is empty; it is then one finding, of the
\* record, whose violations are the empty fields in field-definition order,
\* with value 0, threshold 0 and operator "=".
C1_NullValuesFinding ==
    \A p \in Procs :
        LET c == call[p] IN
        (c.pc # "idle" /\ \A k \in NullEmissions(c) : c.emitted[k].ok) =>
            /\ (NullFindings # {}) <=> (EmptyFields(c.job) # <<>>)
            /\ Cardinality(NullFindings) <= 1
            /\ \A a \in NullFindings :
                /\ a.JobID = c.job.JobID
                /\ a.Violations = EmptyFields(c.job)
                /\ a.Value = F(0)
                /\ a.Threshold = F(0)
                /\ a.Operator = "="

\* a completed call on a record with several empty fields, not all adjacent,
\* whose null-values finding is stored
C1_Witness ==
    \E p \in Procs :
        /\ call[p].pc = "done"
        /\ call[p].err = ""
        /\ EmptyFields(call[p].job) =
              <<"company_name", "company_address", "company_website", "job_link">>
        /\ NullFindings # {}

DeviationClaim(c, field, v, mu, var) ==
    LET E == DeviationEmissions(c, field) IN
    /\ (E # {}) <=> BeyondThreeSigma(v, mu, var)
    /\ Cardinality(E) <= 1
    /\ \A k \in E :
        /\ c.emitted[k].anomaly.JobID = c.job.JobID
        /\ c.emitted[k].anomaly.Value = F(v)
        /\ c.emitted[k].anomaly.Threshold = mu

C3_NoDeviationAtZeroSigma ==
    \A p \in Procs :
        LET c == call[p] IN
        /\ (PastSalaryDeviation(c) /\ c.stats.SalaryVar.n = 0) =>
              DeviationEmissions(c, "max_salary") = {}
        /\ (PastRatingDeviation(c) /\ c.stats.RatingVar.n = 0) =>
              DeviationEmissions(c, "company_rating") = {}

\* C4 (SpecDetect), as the specification states it: with no stored record
\* qualifying for the baseline, a call in which no query fails completes
\* without error, returns every finding it stored, and has applied every rule.
C4_CompletesWithoutBaseline ==
    \A p \in Procs :
        LET c == call[p] IN
        (/\ c.pc = "done"
         /\ StatisticsRows(jobs) = {}
         /\ c.err \notin {StatisticsQueryError, RulesQueryError}) =>
            /\ c.err = ""
            /\ c.detectedAnomalies = OkFindings(c)
            /\ c.i = Len(rules) + 1

\* C5 (SpecDetect), as the specification states it: a call in which no query
\* fails has, when it ends, detected a finding for an active rule on a metric
\* the record carries if and only if (value op threshold) holds; the finding
\* has that value, threshold, operator and the rule's description.
C5_RuleFindingIffComparison ==
    \A p \in Procs :
        LET c == call[p] IN
        (c.pc = "done" /\ c.err \notin {StatisticsQueryError, RulesQueryError}) =>
            \A k \in 1..Len(rules) :
                LET rule == rules[k]
                    E    == RuleEmissions(c, rule.ID)
                IN  (/\ rule.IsActive
                     /\ rule.Type \in Metrics
                     /\ rule.Operator \in Operators
                     /\ Carries(c.job, rule.Type)) =>
                        LET v == MetricValue(c.job, rule.Type) IN
                        /\ (E # {}) <=> Holds(v, rule.Operator, rule.Value)
                        /\ \A e \in E :
                            /\ c.emitted[e].anomaly.Value = F(v)
                            /\ c.emitted[e].anomaly.Threshold = F(rule.Value)
                            /\ c.emitted[e].anomaly.Operator = rule.Operator
                            /\ c.emitted[e].anomaly.Description = rule.Description

\* C6 (SpecDetect), as the specification states it: a call detects no finding
\* for an active rule whose metric the record does not carry (salary null,
\* company rating 0).
C6_NoFindingWithoutMetric ==
    \A p \in Procs :
        LET c == call[p] IN
        \A k \in 1..Len(c.rules) :
            (/\ c.rules[k].IsActive
             /\ c.rules[k].Type \in Metrics
             /\ ~Carries(c.job, c.rules[k].Type)) =>
                RuleEmissions(c, c.rules[k].ID) = {}

\* every rule finding of a call is for a rule that was active at some time
\* since the call began; a call that ends without error has a finding for
\* every rule that was stored unchanged, active, all through the call and
\* whose comparison holds for the record
C7_AppliedIffActive ==
    \A p \in Procs :
        LET c == call[p] IN
        /\ \A k \in 1..Len(c.emitted) :
              c.emitted[k].rule # 0 => c.emitted[k].rule \in c.everActive
        /\ (c.pc = "done" /\ c.err = "") =>
              \A r \in c.steady :
                  (r.IsActive /\ Applies(r, c.job)) => RuleEmissions(c, r.ID) # {}

\* a toggle changes nothing of the rule table but is_active of the rule it names
C7_ToggleKeepsRule ==
    rules' # rules =>
        \A id \in 1..MaxRuleId, isActive \in BOOLEAN :
            ToggleAnomalyRule(id, isActive) =>
                /\ Len(rules') = Len(rules)
                /\ \A k \in 1..Len(rules) :
                    rules'[k] = IF rules[k].ID = id
                                THEN [rules[k] EXCEPT !.IsActive = isActive]
                                ELSE rules[k]

\* C7 (Spec): a rule that is inactive from before a per-record call begins
\* until it ends gets no finding from that call, whether the call is the first
\* of a detect-all or a later one; the toggle leaves the rule stored; a rule
\* that is active (again) all through a call that ends without error is applied.
C7_InactiveRuleNotApplied == []C7_AppliedIffActive /\ [][C7_ToggleKeepsRule]_vars

\* the second per-record call of a detect-all has ended without error; a rule
\* whose comparison holds for its record is stored, inactive since before the
\* call began, and has no finding from it
C7_Witness ==
    \E p \in Procs :
        LET c == call[p] IN
        /\ scan[p].active
        /\ scan[p].done = 2
        /\ c.pc = "done"
        /\ c.err = ""
        /\ \E k \in 1..Len(rules) :
            /\ ~rules[k].IsActive
            /\ rules[k].ID \notin c.everActive
            /\ rules[k] \in c.steady
            /\ Applies(rules[k], c.job)
            /\ RuleEmissions(c, rules[k].ID) = {}

\* C8 (SpecDetect): a failed insert changes nothing but the fate of its own
\* finding.  Every finding whose insert succeeded is stored; the only errors a
\* call ends with are those of the statistics and the rule queries; a call
\* without error holds exactly the findings whose insert succeeded, in order;
\* and a call that ends without error has detected, in every phase, what the
\* record, the baseline and the rules call for, whichever inserts failed.
C8_InsertFailureDropsOnlyThatFinding ==
    \A p \in Procs :
        LET c == call[p] IN
        /\ \A k \in 1..Len(c.emitted) :
              c.emitted[k].ok => c.emitted[k].anomaly \in anomalies
        /\ c.err \in {"", ScanNullError, StatisticsQueryError, RulesQueryError}
        /\ c.err = "" => c.detectedAnomalies = OkFindings(c)
        /\ (c.pc = "done" /\ c.err = "") =>
              /\ (NullEmissions(c) # {}) <=> (EmptyFields(c.job) # <<>>)
              /\ (DeviationEmissions(c, "max_salary") # {}) <=>
                    /\ c.job.MaxSalary # NULL
                    /\ ZScoreExceeds(F(c.job.MaxSalary[1]), c.stats.AvgSalary,
                                     c.stats.SalaryVar)
              /\ (DeviationEmissions(c, "company_rating") # {}) <=>
                    /\ c.job.CompanyRating # 0
                    /\ ZScoreExceeds(F(c.job.CompanyRating), c.stats.AvgRating,
                                     c.stats.RatingVar)
              /\ c.i = Len(c.rules) + 1
              /\ c.rules = GetAnomalyRules(rules)
              /\ \A k \in 1..Len(c.rules) :
                    (RuleEmissions(c, c.rules[k].ID) # {}) <=>
                        anomalyDetected(c.rules[k], c.job)

\* a call that ended without error after an insert succeeded, a later one
\* failed, and one after that succeeded
C8_Witness ==
    \E p \in Procs :
        LET c == call[p] IN
        /\ c.pc = "done"
        /\ c.err = ""
        /\ \E i, j, k \in 1..Len(c.emitted) :
            /\ i < j /\ j < k
            /\ c.emitted[i].ok /\ ~c.emitted[j].ok /\ c.emitted[k].ok
        /\ Len(c.detectedAnomalies) >= 2

\* C9 (SpecDetect), as the specification states it: when the statistics query
\* or the rule query of a call fails, the call still returns every finding it
\* stored, and after a failed statistics query it still applies the rules.
C9_PhaseFailureKeepsOtherPhases ==
    \A p \in Procs :
        LET c == call[p] IN
        (c.pc = "done" /\ c.err \in {StatisticsQueryError, RulesQueryError}) =>
            /\ \A k \in 1..Len(c.emitted) :
                  c.emitted[k].ok => c.emitted[k].anomaly \in Returned(c)
            /\ c.err = StatisticsQueryError =>
                  \A k \in 1..Len(rules) :
                      (rules[k].IsActive /\ Applies(rules[k], c.job)) =>
                          RuleEmissions(c, rules[k].ID) # {}

\* C10 (SpecDetect): every finding in the sequence a call holds for return
\* carries an id the store assigned, is a row of the anomalies table, and is
\* the finding of an insert of this call that succeeded; the finding of an
\* insert that failed has no id and is not in the sequence.
C10_ReturnedFindingsWereInserted ==
    \A p \in Procs :
        LET c == call[p] IN
        /\ \A a \in Returned(c) :
            /\ a.ID # 0
            /\ a \in anomalies
            /\ \E k \in 1..Len(c.emitted) : c.emitted[k].ok /\ c.emitted[k].anomaly = a
        /\ \A k \in 1..Len(c.emitted) :
              ~c.emitted[k].ok =>
                  /\ c.emitted[k].anomaly.ID = 0
                  /\ c.emitted[k].anomaly \notin Returned(c)

\* a call that ended without error returns a finding although its last insert,
\* on a stored record, failed
C10_Witness ==
    \E p \in Procs :
        LET c == call[p] IN
        /\ c.pc = "done"
        /\ c.err = ""
        /\ c.job.JobID \in JobIds
        /\ Len(c.emitted) >= 2
        /\ ~c.emitted[Len(c.emitted)].ok
        /\ Len(c.detectedAnomalies) = Len(c.emitted) - 1

\* the job ids of a sequence of rows
IdsOf(rows) == [k \in 1..Len(rows) |-> rows[k].JobID]

EnumerationErrors == {"error querying jobs", "error scanning job", "error iterating jobs"}

\* every row of the result set has had its per-record call, once, in the order
\* of the result set; no record comes twice in a result set; and a scan that
\* returned without an enumeration error has called DetectAnomalies on every
\* row, however many of the calls returned an error
C11_ScanEvaluatesEachRowOnce ==
    \A p \in Procs :
        LET sc == scan[p] IN
        /\ \A a, b \in 1..Len(sc.all) : a # b => sc.all[a].JobID # sc.all[b].JobID
        /\ sc.done = Len(sc.seen)
        /\ sc.done <= Len(sc.all)
        /\ sc.seen = [k \in 1..sc.done |-> sc.all[k].JobID]
        /\ sc.failed <= sc.done
        /\ sc.active => Len(sc.rows) = Len(sc.all) - sc.done
        /\ (~sc.active /\ sc.err \notin EnumerationErrors) => sc.seen = IdsOf(sc.all)

\* the result set of the query is the jobs table of that moment: N rows for N
\* stored records
C11_ResultSetIsTheTable ==
    \A p \in Procs :
        (~scan[p].active /\ scan'[p].active) =>
            /\ Len(scan'[p].all) = Cardinality(jobs)
            /\ {scan'[p].all[k] : k \in 1..Len(scan'[p].all)} = jobs
            /\ scan'[p].seen = <<>>

\* C11 (Spec): DetectAnomaliesForAllJobs over a jobs table of N records calls
\* DetectAnomalies once for each of the N records; a per-record call that
\* returns an error does not end the loop, the records after it get their call.
C11_DetectAllEvaluatesEveryRecord ==
    []C11_ScanEvaluatesEachRowOnce /\ [][C11_ResultSetIsTheTable]_vars

\* a scan over two records: the call on the first returned an error, which was
\* printed, and the call on the second was made and ended without error
C11_Witness ==
    \E p \in Procs :
        /\ scan[p].active
        /\ Len(scan[p].all) = 2
        /\ scan[p].seen = IdsOf(scan[p].all)
        /\ scan[p].failed = 1
        /\ call[p].pc = "done"
        /\ call[p].err = ""

\* C12 (Spec): the only errors DetectAnomaliesForAllJobs returns are those of
\* enumerating the jobs table (the query, a row scan, the iteration), each in
\* its place: the query before any row, a row scan before the last row was
\* evaluated; a scan whose enumeration did not fail returns no error, whatever
\* the number of per-record calls that returned one.
C12_OnlyEnumerationFails ==
    \A p \in Procs :
        LET sc == scan[p] IN
        /\ sc.err \in {""} \cup EnumerationErrors
        /\ sc.err = "error querying jobs" => sc.all = <<>> /\ sc.done = 0
        /\ sc.err = "error scanning job" => sc.done < Len(sc.all)
        /\ sc.err = "error iterating jobs" => sc.done = Len(sc.all)
        /\ sc.active => sc.err = ""

\* a scan over two records has returned without error although both
\* per-record calls returned an error
C12_Witness ==
    \E p \in Procs :
        /\ ~scan[p].active
        /\ scan[p].err = ""
        /\ scan[p].done = 2
        /\ scan[p].failed = 2

\* the inserts of a call that succeeded, as positions of its history
OkEmissions(c) == {k \in 1..Len(c.emitted) : c.emitted[k].ok}

\* what a call detected, in order, whatever became of the inserts
Detected(c) == [k \in 1..Len(c.emitted) |-> Unstored(c.emitted[k].anomaly)]

\* C13 (SpecRepeat): of two DetectAnomalies calls on one record, with the jobs
\* and rule tables unchanged, run one after the other or interleaved, each
\* stores a row of its own for every finding whose insert succeeds: the rows
\* are in the anomalies table under ids that differ, the table holds as many
\* rows as inserts succeeded, and two calls that end without error have
\* detected the same findings, so the second stores duplicates of the first.
C13_NoDeduplication ==
    /\ \A p \in Callers : \A k \in OkEmissions(call[p]) :
          /\ call[p].emitted[k].anomaly \in anomalies
          /\ call[p].emitted[k].anomaly.ID # 0
    /\ \A p, q \in Callers :
          \A i \in OkEmissions(call[p]), j \in OkEmissions(call[q]) :
              <<p, i>> # <<q, j>> =>
                  call[p].emitted[i].anomaly.ID # call[q].emitted[j].anomaly.ID
    /\ Cardinality(anomalies) =
          Cardinality(OkEmissions(call["p1"])) + Cardinality(OkEmissions(call["p2"]))
    /\ (\A p \in Callers : call[p].pc = "done" /\ call[p].err = "") =>
          Detected(call["p1"]) = Detected(call["p2"])

\* both calls have ended without error; they ran interleaved (an insert of the
\* second came between two inserts of the first); the table holds two
\* findings of the same record and kind, equal but for their ids
C13_Witness ==
    /\ \A p \in Callers : call[p].pc = "done" /\ call[p].err = ""
    /\ \E i, j \in OkEmissions(call["p1"]), k \in OkEmissions(call["p2"]) :
          /\ call["p1"].emitted[i].anomaly.ID < call["p2"].emitted[k].anomaly.ID
          /\ call["p2"].emitted[k].anomaly.ID < call["p1"].emitted[j].anomaly.ID
    /\ \E a, b \in anomalies :
          /\ a.ID # b.ID
          /\ Unstored(a) = Unstored(b)
          /\ a.Type = AnomalyTypeDeviation

\* one step of the service: every stored finding stays as it is, and a finding
\* that is new in the table is the one finding a DetectAnomalies call has just
\* inserted, under an id no stored finding has
C14_AppendOnlyStep ==
    /\ anomalies \subseteq anomalies'
    /\ anomalies' # anomalies =>
          \E p \in Procs :
              LET E == call'[p].emitted IN
              /\ call'[p] # call[p]
              /\ E # <<>>
              /\ E[Len(E)].ok
              /\ anomalies' = anomalies \cup {E[Len(E)].anomaly}
              /\ \A a \in anomalies : a.ID # E[Len(E)].anomaly.ID

\* C14 (Spec): under the running service the anomalies table is append-only.
\* No step of a detect-all, of its per-record calls, of a record upsert or of
\* a rule create, update, delete or toggle removes or changes a stored
\* finding, and findings are added by a DetectAnomalies call only.
C14_AnomalyStoreAppendOnly == [][C14_AppendOnlyStep]_vars

\* a finding of a max_salary rule is still stored after the detect-all that
\* found it has returned and the rule has been deleted
C14_Witness ==
    /\ \A p \in Procs : ~scan[p].active /\ call[p].pc = "idle"
    /\ \E a \in anomalies : a.Type = AnomalyTypeMaxSalary
    /\ \A k \in 1..Len(rules) : rules[k].Type # AnomalyTypeMaxSalary
    /\ resp.err = ""

\* the rule is the one createDefaultAnomalyRules stored, toggled or not
Seeded(rule) == [rule EXCEPT !.IsActive = TRUE] = DefaultRule

\* C15 (SpecRules), as the specification states it: a rule whose metric is not
\* max_salary, min_salary or company_rating is rejected when it is created, so
\* every rule that a request has put into the rule table has one of the three
\* metrics.
C15_UnknownMetricRejected ==
    \A k \in 1..Len(rules) : ~Seeded(rules[k]) => rules[k].Type \in Metrics

\* C16 (SpecRules), as the specification states it: in every reachable state
\* the operator of every stored rule is one of >, >=, <, <=, =.
C16_StoredOperatorsValid ==
    \A k \in 1..Len(rules) : rules[k].Operator \in Operators

C17_NamesUnique ==
    \A a, b \in 1..Len(rules) :
        a # b => rules[a].Name # rules[b].Name /\ rules[a].ID # rules[b].ID

\* a create under the name of a stored rule, and an update to the name of
\* another stored rule, return an error and leave the rule table as it was
C17_DuplicateRejected ==
    /\ \A rule \in RuleRequests :
          (CreateAnomalyRule(rule) /\ \E k \in 1..Len(rules) : rules[k].Name = rule.Name) =>
              rules' = rules /\ resp'.err # ""
    /\ \A id \in 1..MaxRuleId, rule \in RuleRequests :
          (/\ UpdateAnomalyRule(id, rule)
           /\ \E k \in 1..Len(rules) : rules[k].ID # id /\ rules[k].Name = rule.Name) =>
              rules' = rules /\ resp'.err # ""

\* C17 (SpecRules): no two stored rules have the same name, in every reachable
\* state; creating a rule, or updating one, to the name of a different stored
\* rule fails with an error and changes nothing in the rule table.
C17_RuleNamesUnique == []C17_NamesUnique /\ [][C17_DuplicateRejected]_vars

\* a create under the name of the seeded rule has just been refused: the id
\* sequence has moved, the table still holds the one rule
C17_Witness ==
    /\ resp.err = "duplicate name"
    /\ Len(rules) = 1
    /\ rules[1].Name = DefaultRule.Name
    /\ nextRuleId = 3

\* the stored records of a job id
StoredAs(id) == {r \in jobs : r.JobID = id}

Evaluating(id) == \E p \in Procs : call[p].pc # "idle" /\ call[p].job.JobID = id

\* C19 (SpecLive), as the specification states it: a record that has been
\* ingested (by the file load or by POST /api/job-data) is eventually
\* evaluated by a DetectAnomalies call, with no detect-all request needed.
C19_IngestedIsEvaluated ==
    \A id \in {r.JobID : r \in SysJobs} :
        (ingested.last[id] # NULL) ~> Evaluating(id)

\* C20 (SpecRead), as the specification states it: a finding that a call
\* returned and that a read of the anomaly store (by job id, or of all) gives
\* back, under the same id, is the same in job_id, kind, description, value,
\* threshold, operator and violations.
C20_ReadBackEqualsReturned ==
    \A p \in Procs : \A a \in Returned(call[p]) : \A r \in resp.anomalies :
        r.ID = a.ID =>
            /\ r.JobID = a.JobID
            /\ r.Type = a.Type
            /\ r.Description = a.Description
            /\ r.Value = a.Value
            /\ r.Threshold = a.Threshold
            /\ r.Operator = a.Operator
            /\ r.Violations = a.Violations

\* C21 (SpecDetect), as the specification states it: with the seeded rule
\* 'Negative Salary' (type salary, operator <, value 0, active) in the
\* anomaly_rules table, a call on a record whose max salary is negative that
\* ends without error has detected a finding of the rule's type, with the
\* record's max salary as value, threshold 0 and operator "<".
C21_SeededRuleFlagsNegativeSalary ==
    \A p \in Procs :
        LET c == call[p] IN
        (/\ c.pc = "done"
         /\ c.err = ""
         /\ \E k \in 1..Len(c.rules) : c.rules[k] = DefaultRule
         /\ c.job.MaxSalary # NULL
         /\ c.job.MaxSalary[1] < 0) =>
            \E k \in 1..Len(c.emitted) :
                LET a == c.emitted[k].anomaly IN
                /\ a.Type = DefaultRule.Type
                /\ a.JobID = c.job.JobID
                /\ a.Value = F(c.job.MaxSalary[1])
                /\ a.Threshold = F(0)
                /\ a.Operator = LessThan

\* C22 (SpecDetect), as the specification states it: a call that ends without
\* error has detected one finding for every active rule whose comparison
\* holds for the record, and these findings follow each other in the order
\* in which the rules were created (ids are handed out in creation order),
\* oldest rule first.
C22_RuleFindingsInCreationOrder ==
    \A p \in Procs :
        LET c == call[p] IN
        (c.pc = "done" /\ c.err = "") =>
            /\ \A k \in 1..Len(c.rules) :
                (c.rules[k].IsActive /\ Applies(c.rules[k], c.job)) =>
                    Cardinality(RuleEmissions(c, c.rules[k].ID)) = 1
            /\ \A j, k \in 1..Len(c.emitted) :
                (j < k /\ c.emitted[j].rule # 0 /\ c.emitted[k].rule # 0) =>
                    c.emitted[j].rule < c.emitted[k].rule

\* the stored records that carry a metric of the statistics query
WithMaxSalary == {r \in jobs : r.MaxSalary # NULL}

WithRating == {r \in jobs : r.CompanyRating # 0}

\* C23 (SpecStats), as the specification states it: the baseline a call works
\* with is, for max salary, the mean and standard deviation over all stored
\* records with a max salary, whatever their rating, and for company rating,
\* the mean and standard deviation over all stored records with a nonzero
\* rating, whatever their max salary.
C23_BaselinePerMetric ==
    \A p \in Procs :
        LET c == call[p]
            salary == [r \in WithMaxSalary |-> r.MaxSalary[1]]
            rating == [r \in WithRating |-> r.CompanyRating]
        IN  PastStatistics(c) =>
                /\ Some(c.stats.AvgSalary) = AVG(salary, WithMaxSalary)
                /\ Some(c.stats.SalaryVar) = STDDEV(salary, WithMaxSalary)
                /\ Some(c.stats.AvgRating) = AVG(rating, WithRating)
                /\ Some(c.stats.RatingVar) = STDDEV(rating, WithRating)

\* C24 (Spec), as the specification states it: the record a batch run hands
\* to the Detection Engine is the stored record it has fetched, with all of
\* its stored field values, so that a stored record whose seven required
\* fields are all non-empty gets no null-values finding from the batch run.
C24_DetectAllEvaluatesStoredValues ==
    \A p \in Procs :
        (scan[p].active /\ call[p].pc # "idle") =>
            LET r == scan[p].all[scan[p].done] IN
            /\ call[p].job = r
            /\ EmptyFields(r) = <<>> => NullEmissions(call[p]) = {}

\* the phase a detected finding comes from: 1 null check, 2 max-salary
\* deviation, 3 company-rating deviation, 4 rule loop
PhaseOf(e) ==
    CASE e.rule # 0                                -> 4
      [] e.anomaly.Type = AnomalyTypeNullValues    -> 1
      [] e.anomaly.Violations = <<"max_salary">>   -> 2
      [] OTHER                                     -> 3

\* C25 (SpecDetect): the findings of a call are detected in phase order, the
\* null-values finding, then the max-salary deviation, then the company-rating
\* deviation, then the rule findings, at most one of each of the first three;
\* the stored findings have ascending ids in that order and the returned
\* sequence lists them in that order; and whatever was found before, a call
\* that is past a phase has detected what the phase calls for.
C25_PhasesInOrderNoShortCircuit ==
    \A p \in Procs :
        LET c == call[p] IN
        /\ \A j, k \in 1..Len(c.emitted) :
            j < k => \/ PhaseOf(c.emitted[j]) < PhaseOf(c.emitted[k])
                     \/ PhaseOf(c.emitted[j]) = 4 /\ PhaseOf(c.emitted[k]) = 4
        /\ \A j, k \in 1..Len(c.detectedAnomalies) :
            j < k => /\ c.detectedAnomalies[j].ID < c.detectedAnomalies[k].ID
                     /\ c.detectedAnomalies[j] \in anomalies
        /\ c.err = "" => c.detectedAnomalies = OkFindings(c)
        /\ (/\ PastSalaryDeviation(c)
            /\ c.job.MaxSalary # NULL
            /\ ZScoreExceeds(F(c.job.MaxSalary[1]), c.stats.AvgSalary, c.stats.SalaryVar)) =>
                DeviationEmissions(c, "max_salary") # {}
        /\ (/\ PastRatingDeviation(c)
            /\ c.job.CompanyRating # 0
            /\ ZScoreExceeds(F(c.job.CompanyRating), c.stats.AvgRating, c.stats.RatingVar)) =>
                DeviationEmissions(c, "company_rating") # {}
        /\ (c.pc = "done" /\ c.err = "") =>
                \A k \in 1..Len(c.rules) :
                    anomalyDetected(c.rules[k], c.job) =>
                        RuleEmissions(c, c.rules[k].ID) # {}

\* a call has ended that found and stored a finding in each of the four
\* phases and returns the four in phase order
C25_Witness ==
    \E p \in Procs :
        LET c == call[p] IN
        /\ c.pc = "done"
        /\ c.err = ""
        /\ Len(c.detectedAnomalies) = 4
        /\ c.detectedAnomalies[1].Type = AnomalyTypeNullValues
        /\ c.detectedAnomalies[2].Violations = <<"max_salary">>
        /\ c.detectedAnomalies[3].Violations = <<"company_rating">>
        /\ c.detectedAnomalies[4].Type \in Metrics
        /\ \A k \in 1..4 : c.detectedAnomalies[k].ID = k

\* the request is refused and has changed nothing in the two stores; the
\* error is not-found unless the statement itself failed in the database
Refused ==
    /\ resp'.err \in {"not found", DatabaseError}
    /\ rules' = rules
    /\ nextRuleId' = nextRuleId
    /\ jobs' = jobs

C26_MissStep ==
    /\ \A id \in 1..MaxRuleId :
        id \notin RuleIds(rules) =>
            /\ \A rule \in LookupRules : UpdateAnomalyRule(id, rule) => Refused
            /\ DeleteAnomalyRule(id) => Refused
            /\ \A isActive \in BOOLEAN : ToggleAnomalyRule(id, isActive) => Refused
            /\ GetAnomalyRule(id) => Refused
    /\ \A jobID \in LookupJobIds :
        jobID \notin JobIds => (GetJobData(jobID) => Refused)

DetectionStep ==
    \E p \in Procs :
        \/ call'[p].pc # call[p].pc
        \/ call'[p].i # call[p].i
        \/ call'[p].emitted # call[p].emitted
        \/ scan'[p] # scan[p]

C27_FrameStep ==
    DetectionStep => /\ jobs' = jobs
                     /\ rules' = rules
                     /\ nextRuleId' = nextRuleId

\* C27 (Spec): no statement of DetectAnomalies or of DetectAnomaliesForAllJobs
\* changes the jobs table, the anomaly_rules table or its id sequence,
\* whatever the record, the rules and the outcome of each insert; what such a
\* step can change in the database is the anomalies table.
C27_DetectionLeavesRecordsAndRules == [][C27_FrameStep]_vars

\* a per-record call of a batch run has ended after storing a finding, with
\* a record and two rules stored
C27_Witness ==
    \E p \in Procs :
        /\ scan[p].done >= 1
        /\ call[p].pc = "done"
        /\ \E k \in 1..Len(call[p].emitted) :
            call[p].emitted[k].ok /\ call[p].emitted[k].anomaly \in anomalies
        /\ jobs # {}
        /\ Len(rules) = 2

\* C28 (SpecDetect), as the specification states it: when a call has ended,
\* every finding it inserted into the anomalies table is in the sequence it
\* returns, and a call that returns the error of a failed statistics query or
\* rule query has left no finding in the table (which was empty before it).
C28_StoredFindingsAreReturned ==
    \A p \in Procs :
        LET c == call[p] IN
        c.pc = "done" =>
            /\ \A k \in 1..Len(c.emitted) :
                  c.emitted[k].ok => c.emitted[k].anomaly \in Returned(c)
            /\ c.err \in {StatisticsQueryError, RulesQueryError} => anomalies = {}

\* C29 (SpecDetect), as the specification states it: every stored finding is
\* the finding of a stored record, and a call on a record that is not stored,
\* in which no query fails in the database, ends without an error, with an
\* empty result and with nothing stored.
C29_FindingsReferenceStoredRecords ==
    /\ \A a \in anomalies : a.JobID \in JobIds
    /\ \A p \in Procs :
        LET c == call[p] IN
        (/\ c.pc = "done"
         /\ c.job.JobID \notin JobIds
         /\ c.err \notin {StatisticsQueryError, RulesQueryError}) =>
            /\ anomalies = {}
            /\ c.detectedAnomalies = <<>>
            /\ c.err = ""

\* a start of the service in which InitializeDatabaseService returns without error
C30_StartStep ==
    (InitializeDatabaseService /\ resp'.err = "") =>
        /\ jobs' = {}
        /\ anomalies' = {}
        /\ Len(rules') = 1
        /\ rules'[1].Name = "Negative Salary"
        /\ rules'[1].Operator = "<"
        /\ rules'[1].Value = 0
        /\ rules'[1].IsActive

====
